---- MODULE Spec2Model ----
(***************************************************************************)
(* Model of src/src/index.ts: the POST /weather handler, the context       *)
(* middleware, the instruction builder, the weather tool and fetchWeather. *)
(*                                                                         *)
(* Text is modelled as a sequence of parts: the literal pieces of a        *)
(* template string and the values interpolated between them, so that       *)
(* "value v appears in text" is "v is one of the parts".                   *)
(* A JSON field is a record [t, s, n]: its type tag, its string value and  *)
(* its number value.                                                       *)
(***************************************************************************)
EXTENDS Integers, Sequences, FiniteSets, TLC

VARIABLES env, provider, req, call, journal

vars == <<env, provider, req, call, journal>>

(***************************************************************************)
(* Bounds                                                                  *)
(***************************************************************************)
\* tool frames that may run at once
NumTasks == 2
\* requests the server handles at once
NumRequests == 1
\* tool calls the orchestrator makes while answering one request
MaxToolCalls == 1

Tasks == 1..NumTasks

Requests == 1..NumRequests

(***************************************************************************)
(* JSON fields                                                             *)
(***************************************************************************)
Absent == [t |-> "absent", s |-> "", n |-> 0]
Str(x) == [t |-> "str", s |-> x, n |-> 0]
Num(k) == [t |-> "num", s |-> "", n |-> k]

\* zod's name for the type it received
Received(f) ==
  CASE f.t = "absent" -> "undefined"
    [] f.t = "str" -> "string"
    [] f.t = "num" -> "number"
    [] OTHER -> f.t

Contains(text, v) == \E i \in 1..Len(text) : text[i] = v

(***************************************************************************)
(* Input domains                                                           *)
(***************************************************************************)
Secret == "sk-weather"

\* process.env.WEATHER_API_KEY: unset, set to the empty string, or set
EnvKeys == {Absent, Str(""), Str(Secret)}

Locations == {"", "San Francisco"}

Units == {"celsius", "fahrenheit"}

\* X-User-Name / X-User-Role headers of a request
HeaderSets ==
  { [name |-> Absent, role |-> Absent],
    [name |-> Str("Alice"), role |-> Str("admin")] }

\* request payloads: not JSON at all, JSON null, {}, {location: 42},
\* {location: ""}, {location: "San Francisco"}
RequestBodies ==
  { [syntax |-> FALSE, kind |-> "none", location |-> Absent],
    [syntax |-> TRUE, kind |-> "null", location |-> Absent],
    [syntax |-> TRUE, kind |-> "obj", location |-> Absent],
    [syntax |-> TRUE, kind |-> "obj", location |-> Num(42)],
    [syntax |-> TRUE, kind |-> "obj", location |-> Str("")],
    [syntax |-> TRUE, kind |-> "obj", location |-> Str("San Francisco")] }

\* tool inputs the orchestrator may produce: {}, {location: 42}, {location: <string>}
ToolInputs == {Absent, Num(42)} \cup {Str(l) : l \in Locations}

\* dependency bags a caller of the tool may supply (valid against depsSchema)
DepsSet ==
  [weatherApiKey : {Secret}, temperatureUnit : Units,
   userName : {"Alice"}, userRole : {"admin"}]

NoDeps == [weatherApiKey |-> "", temperatureUnit |-> "", userName |-> "", userRole |-> ""]

(***************************************************************************)
(* The weather provider: what fetch(url) can come back with.               *)
(* A response is [net, ok, statusText, json, body]: whether fetch resolved *)
(* at all, response.ok, response.statusText, whether the payload parses as *)
(* JSON, and the parsed payload.  A payload is                             *)
(* [kind, name, main, temp, humidity, weather, items]; items holds the     *)
(* description field of each element of the weather array.                 *)
(***************************************************************************)
NoBody ==
  [kind |-> "none", name |-> Absent, main |-> "absent", temp |-> Absent,
   humidity |-> Absent, weather |-> "absent", items |-> <<>>]

NoResponse ==
  [net |-> FALSE, ok |-> FALSE, statusText |-> "", json |-> FALSE, body |-> NoBody]

\* encodeURIComponent on the locations of the model
encodeURIComponent(location) ==
  CASE location = "San Francisco" -> "San%20Francisco"
    [] OTHER -> location

\* the provider's decoding of the q parameter
decodeURIComponent(q) ==
  CASE q = "San%20Francisco" -> "San Francisco"
    [] OTHER -> q

\* the temperature the provider reports in each unit system
ProviderTemp(units) == IF units = "metric" THEN 22 ELSE 72

GoodBody(q, units) ==
  [kind |-> "obj", name |-> Str(decodeURIComponent(q)), main |-> "obj",
   temp |-> Num(ProviderTemp(units)), humidity |-> Num(65),
   weather |-> "arr", items |-> <<Str("partly cloudy")>>]

Ok200(body) ==
  [net |-> TRUE, ok |-> TRUE, statusText |-> "OK", json |-> TRUE, body |-> body]

\* the behaviours of the provider the model ranges over
ProviderShapes ==
  { "good", "noWeather", "emptyWeather", "noDescription", "numDescription",
    "secondNoDescription", "noName", "numName", "noTemp", "strHumidity",
    "noMain", "nullBody", "notJson", "notFound", "unauthorizedGoodBody",
    "unreachable" }

\* the response of a provider of the given shape to GET url
Respond(shape, url) ==
  LET q == url[2]
      g == GoodBody(q, url[6])
  IN CASE shape = "good" -> Ok200(g)
       [] shape = "noWeather" -> Ok200([g EXCEPT !.weather = "absent", !.items = <<>>])
       [] shape = "emptyWeather" -> Ok200([g EXCEPT !.items = <<>>])
       [] shape = "noDescription" -> Ok200([g EXCEPT !.items = <<Absent>>])
       [] shape = "numDescription" -> Ok200([g EXCEPT !.items = <<Num(800)>>])
       [] shape = "secondNoDescription" ->
            Ok200([g EXCEPT !.items = <<Str("partly cloudy"), Absent>>])
       [] shape = "noName" -> Ok200([g EXCEPT !.name = Absent])
       [] shape = "numName" -> Ok200([g EXCEPT !.name = Num(5391959)])
       [] shape = "noTemp" -> Ok200([g EXCEPT !.temp = Absent])
       [] shape = "strHumidity" -> Ok200([g EXCEPT !.humidity = Str("65")])
       [] shape = "noMain" ->
            Ok200([g EXCEPT !.main = "absent", !.temp = Absent, !.humidity = Absent])
       [] shape = "nullBody" -> Ok200([NoBody EXCEPT !.kind = "null"])
       [] shape = "notJson" -> [Ok200(NoBody) EXCEPT !.json = FALSE]
       [] shape = "notFound" ->
            [net |-> TRUE, ok |-> FALSE, statusText |-> "Not Found", json |-> TRUE,
             body |-> [NoBody EXCEPT !.kind = "obj"]]
       [] shape = "unauthorizedGoodBody" ->
            [net |-> TRUE, ok |-> FALSE, statusText |-> "Unauthorized", json |-> TRUE,
             body |-> g]
       [] OTHER -> NoResponse

(***************************************************************************)
(* fetchWeather (index.ts 38-73)                                           *)
(***************************************************************************)
NoReport ==
  [location |-> Absent, temperature |-> Absent, conditions |-> "",
   humidity |-> "", unit |-> ""]

NoResult == [kind |-> "none", message |-> <<>>, origin |-> "", report |-> NoReport]

Failure(kind, message, origin) ==
  [kind |-> kind, message |-> message, origin |-> origin, report |-> NoReport]

\* UnitsOf with the two unit systems exchanged
UnitsOfSwapped(temperatureUnit) ==
  IF temperatureUnit = "celsius" THEN "imperial" ELSE "metric"

\* line 42: const units = temperatureUnit === "celsius" ? "metric" : "imperial"
UnitsOf(temperatureUnit) ==
  IF temperatureUnit = "celsius" THEN "metric" ELSE "imperial"

\* line 44: the url template and the values interpolated into it
UrlOf(location, weatherApiKey, temperatureUnit) ==
  << "https://api.openweathermap.org/data/2.5/weather?q=",
     encodeURIComponent(location), "&appid=", weatherApiKey, "&units=",
     UnitsOf(temperatureUnit) >>

\* ResponseOk without the status check
ResponseOkAlways(response) == TRUE

\* line 47: if (!response.ok)
ResponseOk(response) == response.ok

\* line 48: new Error(`Error fetching weather: ${response.statusText}`)
FetchError(response) ==
  Failure("Error", <<"Error fetching weather: ", response.statusText>>, "tool")

\* one zod issue: the path, the type expected and the type received
Issue(path, expected, f) == <<path, expected, Received(f)>>

RECURSIVE ItemIssues(_, _)
\* issues of weather[i..]: each element needs description: string
ItemIssues(items, i) ==
  IF i > Len(items) THEN <<>>
  ELSE (IF items[i].t = "str" THEN <<>>
        ELSE Issue("weather." \o ToString(i - 1) \o ".description", "string", items[i]))
       \o ItemIssues(items, i + 1)

\* NameIssues for name: z.string().optional()
NameIssuesOptional(body) ==
  IF body.name.t \in {"str", "absent"} THEN <<>> ELSE Issue("name", "string", body.name)

\* the name field against z.string() (line 52)
NameIssues(body) ==
  IF body.name.t = "str" THEN <<>> ELSE Issue("name", "string", body.name)

\* lines 51-62: the issues dataSchema.parse finds in a parsed payload
dataSchemaIssues(body) ==
  IF body.kind # "obj" THEN <<"", "object", body.kind>>
  ELSE NameIssues(body)
       \o (IF body.main # "obj" THEN <<"main", "object", "undefined">>
           ELSE (IF body.temp.t = "num" THEN <<>>
                 ELSE Issue("main.temp", "number", body.temp))
                \o (IF body.humidity.t = "num" THEN <<>>
                    ELSE Issue("main.humidity", "number", body.humidity)))
       \o (IF body.weather # "arr" THEN <<"weather", "array", "undefined">>
           ELSE ItemIssues(body.items, 1))

\* line 69: data.weather[0]?.description ?? "unknown"
ConditionsOf(data) ==
  IF Len(data.items) >= 1 /\ data.items[1].t = "str" THEN data.items[1].s
  ELSE "unknown"

\* lines 66-72: the report built from the validated payload
ReportOf(data, temperatureUnit) ==
  [location |-> data.name,
   temperature |-> data.temp,
   conditions |-> ConditionsOf(data),
   humidity |-> ToString(data.humidity.n) \o "%",
   unit |-> temperatureUnit]

\* lines 64-72: dataSchema.parse(json) and the return, or the ZodError thrown
ParseAndMap(body, temperatureUnit) ==
  LET issues == dataSchemaIssues(body)
  IN IF issues # <<>> THEN Failure("ZodError", issues, "tool")
     ELSE [kind |-> "report", message |-> <<>>, origin |-> "tool",
           report |-> ReportOf(body, temperatureUnit)]

(***************************************************************************)
(* weatherTool (index.ts 79-92): one frame per running call.               *)
(* pc: idle, fetching (awaiting fetch(url)), reading (awaiting             *)
(* response.json()), returned (the promise of execute has settled).        *)
(***************************************************************************)
IdleCall ==
  [pc |-> "idle", location |-> "", deps |-> NoDeps, url |-> <<>>,
   response |-> NoResponse, bodyRead |-> FALSE, result |-> NoResult]

\* lines 82-84: the issues inputSchema finds in a tool input {location: f}
inputSchemaIssues(f) ==
  IF f.t = "str" THEN <<>> ELSE Issue("location", "string", f)

\* lines 86-90 and 42-46: execute calls fetchWeather, which builds the url
\* and awaits fetch(url)
executeStart(location, dependencies) ==
  [pc |-> "fetching", location |-> location, deps |-> dependencies,
   url |-> UrlOf(location, dependencies.weatherApiKey, dependencies.temperatureUnit),
   response |-> NoResponse, bodyRead |-> FALSE, result |-> NoResult]

\* ParamsOf with the parameters kept in one variable of the module, which
\* holds those of the running call that was given the highest frame
ParamsOfShared(t) ==
  call[CHOOSE u \in Tasks :
         /\ call[u].pc # "idle"
         /\ \A v \in Tasks : call[v].pc # "idle" => v <= u]

\* lines 38-41: the parameters bound in the running invocation t
ParamsOf(t) == call[t]

\* lines 46-64: fetch(url) settles; a rejected fetch and a non-ok status end
\* the call, an ok status goes on to await response.json()
FetchSettle(t) ==
  /\ call[t].pc = "fetching"
  /\ LET response == Respond(provider, call[t].url)
     IN call' = [call EXCEPT ![t] =
          IF ~response.net
          THEN [@ EXCEPT !.pc = "returned",
                         !.result = Failure("TypeError", <<"fetch failed">>, "tool")]
          ELSE IF ~ResponseOk(response)
          THEN [@ EXCEPT !.pc = "returned", !.response = response,
                         !.result = FetchError(response)]
          ELSE [@ EXCEPT !.pc = "reading", !.response = response,
                         !.bodyRead = TRUE]]
  /\ UNCHANGED <<env, provider, req, journal>>

\* lines 64-72: response.json() settles, then dataSchema.parse and the return
JsonSettle(t) ==
  /\ call[t].pc = "reading"
  /\ call' = [call EXCEPT ![t] =
       [@ EXCEPT !.pc = "returned",
                 !.result =
                   IF ~call[t].response.json
                   THEN Failure("SyntaxError", <<"Unexpected token in JSON">>, "tool")
                   ELSE ParseAndMap(call[t].response.body,
                                    ParamsOf(t).deps.temperatureUnit)]]
  /\ UNCHANGED <<env, provider, req, journal>>

(***************************************************************************)
(* Context middleware and the POST /weather handler (index.ts 158-216)     *)
(***************************************************************************)
NoResp ==
  [how |-> "none", status |-> 0, success |-> FALSE, text |-> <<>>,
   kind |-> "", origin |-> ""]

IdleReq ==
  [pc |-> "idle",
   headers |-> [name |-> Absent, role |-> Absent],
   body |-> [syntax |-> FALSE, kind |-> "none", location |-> Absent],
   userContext |-> [userName |-> "", userRole |-> ""],
   location |-> "", deps |-> NoDeps, instructions |-> <<>>, query |-> <<>>,
   generated |-> FALSE, toolCalls |-> 0, fetches |-> 0, seen |-> NoResult,
   logged |-> <<>>, resp |-> NoResp, holders |-> {}]

\* header ?? fallback (lines 166-167)
Nullish(f, fallback) == IF f.t = "absent" THEN fallback ELSE f.s

\* lines 164-172: the middleware's userContext
UserContextOf(headers) ==
  [userName |-> Nullish(headers.name, "Anonymous"),
   userRole |-> Nullish(headers.role, "guest")]

\* line 158: what hono's logger prints for a request and for its response
LoggerIn == [origin |-> "logger", parts |-> <<"<--", "POST", "/weather">>]

LoggerOut(status) ==
  [origin |-> "logger", parts |-> <<"-->", "POST", "/weather", ToString(status)>>]

\* querySchemaIssues for location: z.string().optional()
querySchemaIssuesOptional(body) ==
  IF body.kind # "obj" THEN <<"", "object", body.kind>>
  ELSE IF body.location.t \in {"str", "absent"} THEN <<>>
  ELSE Issue("location", "string", body.location)

\* lines 180 and 183: the issues querySchema finds in the parsed body
querySchemaIssues(body) ==
  IF body.kind # "obj" THEN <<"", "object", body.kind>>
  ELSE IF body.location.t = "str" THEN <<>>
  ELSE Issue("location", "string", body.location)

\* ApiKeyMissing without the check
ApiKeyMissingNever(apiKey) == FALSE

\* line 187: if (!apiKey)
ApiKeyMissing(apiKey) == apiKey.t = "absent" \/ apiKey.s = ""

\* lines 191-196: the dependency bag
AssembleDeps(apiKey, userContext) ==
  [weatherApiKey |-> apiKey.s, temperatureUnit |-> "fahrenheit",
   userName |-> userContext.userName, userRole |-> userContext.userRole]

\* line 198: `What is the weather in ${location}?`
QueryOf(location) == <<"What is the weather in ", location, "?">>

\* buildInstructions with the whole dependency bag interpolated
buildInstructionsWithBag(context) ==
  << "You are an agent that can fetch weather information. <user_context> <name>",
     context.dependencies.userName,
     "</name> <role>",
     context.dependencies.userRole,
     "</role> <api_key>",
     context.dependencies.weatherApiKey,
     "</api_key> <preferences> <temperature_unit>",
     context.dependencies.temperatureUnit,
     "</temperature_unit> ... 3. Format your response with temperature in ",
     context.dependencies.temperatureUnit,
     " ... </instructions> <examples> ... </examples>" >>

\* lines 94-142: the instruction template and the values interpolated into it
buildInstructions(context) ==
  << "You are an agent that can fetch weather information. <user_context> <name>",
     context.dependencies.userName,
     "</name> <role>",
     context.dependencies.userRole,
     "</role> <preferences> <temperature_unit>",
     context.dependencies.temperatureUnit,
     "</temperature_unit> ... 3. Format your response with temperature in ",
     context.dependencies.temperatureUnit,
     " ... </instructions> <examples> ... </examples>" >>

\* lines 206-215: console.error("Error:", error) and the 400 envelope
Caught(r, error) ==
  [r EXCEPT
     !.pc = "done",
     !.logged = @ \o << [origin |-> error.origin,
                         parts |-> <<"Error:", error.kind>> \o error.message],
                        LoggerOut(400) >>,
     !.resp = [how |-> "json", status |-> 400, success |-> FALSE,
               text |-> IF error.kind = "value" THEN <<"Unknown error">>
                        ELSE error.message,
               kind |-> error.kind, origin |-> error.origin]]

\* lines 202-205: the 200 envelope around result.text
Succeeded(r, text) ==
  [r EXCEPT
     !.pc = "done",
     !.logged = @ \o <<LoggerOut(200)>>,
     !.resp = [how |-> "json", status |-> 200, success |-> TRUE, text |-> text,
               kind |-> "", origin |-> "orchestrator"]]

\* line 179 throwing outside the try block: the rejection leaves the handler
Escaped(r, error) ==
  [r EXCEPT
     !.pc = "done",
     !.logged = @ \o <<LoggerOut(500)>>,
     !.resp = [how |-> "uncaught", status |-> 500, success |-> FALSE,
               text |-> <<>>, kind |-> error.kind, origin |-> error.origin]]

\* a request arrives: logger, then the middleware (lines 164-172), then the
\* handler up to its first await, context.req.json() (line 179)
Arrive(r, headers, body) ==
  /\ req[r].pc = "idle"
  /\ call[r].pc = "idle"
  /\ req' = [req EXCEPT ![r] =
       [IdleReq EXCEPT !.pc = "reading", !.headers = headers, !.body = body,
                       !.userContext = UserContextOf(headers),
                       !.logged = <<LoggerIn>>]]
  /\ UNCHANGED <<env, provider, call, journal>>

\* lines 179-200: context.req.json() settles; the try block runs up to the
\* await of agent.generate, or throws into the catch block
ReadBody(r) ==
  /\ req[r].pc = "reading"
  /\ LET q == req[r]
         issues == querySchemaIssues(q.body)
         deps == AssembleDeps(env, q.userContext)
     IN req' = [req EXCEPT ![r] =
          IF ~q.body.syntax
          THEN Escaped(q, Failure("SyntaxError", <<"Unexpected token in JSON">>, "handler"))
          ELSE IF issues # <<>>
          THEN Caught(q, Failure("ZodError", issues, "handler"))
          ELSE IF ApiKeyMissing(env)
          THEN Caught([q EXCEPT !.location = q.body.location.s],
                      Failure("Error", <<"Missing WEATHER_API_KEY environment variable">>,
                              "handler"))
          ELSE [q EXCEPT !.pc = "generating",
                         !.location = q.body.location.s,
                         !.deps = deps,
                         !.query = QueryOf(q.body.location.s),
                         !.instructions = buildInstructions([dependencies |-> deps]),
                         !.generated = TRUE,
                         !.holders = {"assembler", "orchestrator"}]]
  /\ UNCHANGED <<env, provider, call, journal>>

(***************************************************************************)
(* The orchestrator behind agent.generate (line 198): it may call the tool *)
(* with an input of its choosing, any number of times up to MaxToolCalls,  *)
(* and ends with a text or with a failure.                                 *)
(***************************************************************************)
\* the orchestrator calls weatherTool: inputSchema decides whether execute runs
OrchCallTool(r, input) ==
  /\ req[r].pc = "generating"
  /\ call[r].pc = "idle"
  /\ req[r].toolCalls < MaxToolCalls
  /\ LET issues == inputSchemaIssues(input)
     IN IF issues # <<>>
        THEN /\ req' = [req EXCEPT ![r].toolCalls = @ + 1,
                                   ![r].seen = Failure("ZodError", issues, "tool")]
             /\ call' = call
        ELSE /\ req' = [req EXCEPT ![r].toolCalls = @ + 1,
                                   ![r].fetches = @ + 1,
                                   ![r].holders = @ \cup {"tool", "provider"}]
             /\ call' = [call EXCEPT ![r] = executeStart(input.s, req[r].deps)]
  /\ UNCHANGED <<env, provider, journal>>

\* the tool's promise settles and the orchestrator takes the result
OrchToolReturn(r) ==
  /\ req[r].pc = "generating"
  /\ call[r].pc = "returned"
  /\ req' = [req EXCEPT ![r].seen = call[r].result]
  /\ call' = [call EXCEPT ![r] = IdleCall]
  /\ UNCHANGED <<env, provider, journal>>

OrchStyles == {"plain", "report", "echo"}

\* texts the orchestrator may end with: built from what it was handed
OrchText(q, style) ==
  CASE style = "report" ->
         << "Hello ", q.deps.userName, " (", q.deps.userRole, ")! Current conditions in ",
            q.seen.report.location.s, ": ", ToString(q.seen.report.temperature.n),
            q.seen.report.unit, q.seen.report.conditions, q.seen.report.humidity >>
    [] style = "echo" ->
         << "My dependencies are ", q.deps.weatherApiKey, q.deps.temperatureUnit,
            q.deps.userName, q.deps.userRole >>
    [] OTHER ->
         << "Hello ", q.deps.userName, " (", q.deps.userRole,
            ")! I could not get the weather in ", q.location >>

\* agent.generate resolves; lines 202-205 answer 200
OrchFinish(r, style) ==
  /\ req[r].pc = "generating"
  /\ call[r].pc = "idle"
  /\ style = "report" => req[r].seen.kind = "report"
  /\ req' = [req EXCEPT ![r] = Succeeded(req[r], OrchText(req[r], style))]
  /\ UNCHANGED <<env, provider, call, journal>>

FailStyles == {"opaque", "tool", "echo", "value"}

\* failures agent.generate may reject with: its own, the tool's passed on,
\* or a thrown value that is no Error
OrchFailure(q, style) ==
  CASE style = "tool" -> q.seen
    [] style = "echo" ->
         Failure("Error", <<"generate failed with ", q.deps.weatherApiKey>>, "orchestrator")
    [] style = "value" -> Failure("value", <<"rate limited">>, "orchestrator")
    [] OTHER -> Failure("Error", <<"model unavailable">>, "orchestrator")

\* agent.generate rejects; lines 206-215 answer 400
OrchFail(r, style) ==
  /\ req[r].pc = "generating"
  /\ call[r].pc = "idle"
  /\ style = "tool" => req[r].seen.kind \notin {"none", "report"}
  /\ req' = [req EXCEPT ![r] = Caught(req[r], OrchFailure(req[r], style))]
  /\ UNCHANGED <<env, provider, call, journal>>

\* the response has been sent; the task serves the next request
Recycle(r) ==
  /\ req[r].pc = "done"
  /\ req' = [req EXCEPT ![r] = IdleReq]
  /\ UNCHANGED <<env, provider, call, journal>>

(***************************************************************************)
(* Direct callers of the tool: any caller holding a valid input and a      *)
(* valid dependency bag may run execute; journal keeps what each finished  *)
(* call was given and what it returned.                                    *)
(***************************************************************************)
Invoke(t, location, dependencies) ==
  /\ req[t].pc = "idle"
  /\ call[t].pc = "idle"
  /\ call' = [call EXCEPT ![t] = executeStart(location, dependencies)]
  /\ UNCHANGED <<env, provider, req, journal>>

Collect(t) ==
  /\ req[t].pc = "idle"
  /\ call[t].pc = "returned"
  /\ journal' = journal \cup
       {[location |-> call[t].location, deps |-> call[t].deps,
         result |-> call[t].result]}
  /\ call' = [call EXCEPT ![t] = IdleCall]
  /\ UNCHANGED <<env, provider, req>>

(***************************************************************************)
(* Specifications                                                          *)
(***************************************************************************)
\* the provider behaviours the server is run against: one for each way a
\* tool call can end
ServerShapes ==
  {"good", "emptyWeather", "noName", "notJson", "notFound", "unreachable"}

Init ==
  /\ env \in EnvKeys
  /\ provider \in ServerShapes
  /\ req = [r \in Tasks |-> IdleReq]
  /\ call = [t \in Tasks |-> IdleCall]
  /\ journal = {}

Next ==
  \/ \E r \in Requests, headers \in HeaderSets, body \in RequestBodies :
       Arrive(r, headers, body)
  \/ \E r \in Requests : ReadBody(r)
  \/ \E r \in Requests, input \in ToolInputs : OrchCallTool(r, input)
  \/ \E t \in Tasks : FetchSettle(t)
  \/ \E t \in Tasks : JsonSettle(t)
  \/ \E r \in Requests : OrchToolReturn(r)
  \/ \E r \in Requests, style \in OrchStyles : OrchFinish(r, style)
  \/ \E r \in Requests, style \in FailStyles : OrchFail(r, style)
  \/ \E r \in Requests : Recycle(r)

\* the server: concurrent POST /weather requests
Spec == Init /\ [][Next]_vars

ToolInit ==
  /\ env = Str(Secret)
  /\ provider \in ProviderShapes
  /\ req = [r \in Tasks |-> IdleReq]
  /\ call = [t \in Tasks |-> IdleCall]
  /\ journal = {}

ToolNext ==
  \/ \E t \in Tasks, location \in Locations, dependencies \in DepsSet :
       Invoke(t, location, dependencies)
  \/ \E t \in Tasks : FetchSettle(t)
  \/ \E t \in Tasks : JsonSettle(t)
  \/ \E t \in Tasks : Collect(t)

\* the tool alone: concurrent calls of weatherTool.execute against one provider
ToolSpec == ToolInit /\ [][ToolNext]_vars

(***************************************************************************)
(* Properties                                                              *)
(***************************************************************************)
MissingKeyMessage == <<"Missing WEATHER_API_KEY environment variable">>

\* the payload has name, main.temp and main.humidity, each of its type
RequiredFieldsValid(body) ==
  /\ body.kind = "obj"
  /\ body.name.t = "str"
  /\ body.main = "obj"
  /\ body.temp.t = "num"
  /\ body.humidity.t = "num"

\* the payload gives no weather[0].description: no weather key, an empty
\* array, or a first element without description
OmitsDescription(body) ==
  \/ body.weather = "absent"
  \/ Len(body.items) = 0
  \/ body.items[1].t = "absent"

\* the unit system that goes with a temperature unit
UnitsMatch(temperatureUnit, units) ==
  \/ temperatureUnit = "celsius" /\ units = "metric"
  \/ temperatureUnit = "fahrenheit" /\ units = "imperial"

\* every finished tool call on record: the collected and the just returned
Outcomes ==
  journal \cup
    {[location |-> call[t].location, deps |-> call[t].deps, result |-> call[t].result] :
       t \in {u \in Tasks : call[u].pc = "returned"}}

\* C1: every finished request was answered by the handler itself; a failed
\* one got the envelope {success: false, error} with a failure status, and no
\* failure left the handler uncaught.
C1_EveryFailureEnveloped ==
  \A r \in Requests :
    req[r].pc = "done" =>
      /\ req[r].resp.how = "json"
      /\ ~req[r].resp.success => req[r].resp.status >= 400

\* C2 as stated: with WEATHER_API_KEY unset, every request whose body is a
\* JSON object is answered with the missing-secret envelope, with or without
\* a location in it.
C2_MissingSecretAnyBody ==
  \A r \in Requests :
    (env.t = "absent" /\ req[r].pc = "done" /\ req[r].body.kind = "obj") =>
      /\ ~req[r].resp.success
      /\ req[r].resp.text = MissingKeyMessage

\* C2 amended: with WEATHER_API_KEY unset, every request whose body is a JSON
\* object with a string location is answered 400 with the missing-secret
\* envelope, and the orchestrator is never invoked for it.
C2_MissingSecretValidBody ==
  \A r \in Requests :
    (env.t = "absent" /\ req[r].body.syntax /\ req[r].body.kind = "obj"
       /\ req[r].body.location.t = "str") =>
      /\ ~req[r].generated
      /\ req[r].pc = "done" =>
           /\ req[r].resp.how = "json"
           /\ req[r].resp.status = 400
           /\ ~req[r].resp.success
           /\ req[r].resp.text = MissingKeyMessage

\* C2 witness: a request with a string location, answered while the key is unset
C2_Witness ==
  \E r \in Requests :
    /\ env.t = "absent"
    /\ req[r].pc = "done"
    /\ req[r].body.location = Str("San Francisco")
    /\ req[r].resp.text = MissingKeyMessage

\* C3 as stated: the secret is in no instruction text, no log line and no
\* response envelope, and it reaches only the dependency assembler and the
\* provider call of the weather tool.
C3_SecretOnlyAssemblerAndProvider ==
  \A r \in Requests :
    /\ ~Contains(req[r].instructions, Secret)
    /\ \A i \in 1..Len(req[r].logged) : ~Contains(req[r].logged[i].parts, Secret)
    /\ ~Contains(req[r].resp.text, Secret)
    /\ req[r].holders \subseteq {"assembler", "tool", "provider"}

\* C3 amended: the secret is in no text this code composes: not in the
\* instruction text, not in the query, not in the message of a failure raised
\* by the handler or by the tool, so in no log line and no envelope made from
\* one; it is handed to the orchestrator inside the dependency bag, and of the
\* url only the appid parameter holds it; it goes to the tool and the provider
\* only in a tool call that runs.  Texts and failures of the orchestrator's
\* own making are passed on as they come.
C3_SecretNotInComposedText ==
  /\ \A r \in Requests :
       /\ ~Contains(req[r].instructions, Secret)
       /\ ~Contains(req[r].query, Secret)
       /\ \A i \in 1..Len(req[r].logged) :
            req[r].logged[i].origin # "orchestrator" =>
              ~Contains(req[r].logged[i].parts, Secret)
       /\ req[r].resp.origin # "orchestrator" => ~Contains(req[r].resp.text, Secret)
       /\ req[r].seen.origin # "orchestrator" => ~Contains(req[r].seen.message, Secret)
       /\ req[r].holders =
            (IF req[r].generated THEN {"assembler", "orchestrator"} ELSE {})
              \cup (IF req[r].fetches > 0 THEN {"tool", "provider"} ELSE {})
  /\ \A t \in Tasks :
       /\ ~Contains(call[t].result.message, Secret)
       /\ \A i \in 1..Len(call[t].url) : call[t].url[i] = Secret => i = 4

\* C3 witness: the key went to the provider, the tool failed, and the failure
\* was logged and answered
C3_Witness ==
  \E r \in Requests :
    /\ env = Str(Secret)
    /\ req[r].pc = "done"
    /\ "provider" \in req[r].holders
    /\ req[r].resp.origin = "tool"
    /\ req[r].resp.status = 400
    /\ Len(req[r].logged) = 3

\* C4: a location handed to the orchestrator or to the provider client is
\* never the empty string.
C4_LocationNeverEmptyDownstream ==
  /\ \A r \in Requests : req[r].generated => req[r].location # ""
  /\ \A t \in Tasks : call[t].pc # "idle" => call[t].location # ""

\* C5: a call whose provider response is valid but for a missing
\* weather[0].description returns a report with conditions "unknown" and every
\* other field taken from the response.
C5_MissingDescriptionIsUnknown ==
  \A t \in Tasks :
    (/\ call[t].pc = "returned"
     /\ call[t].response.net /\ call[t].response.ok /\ call[t].response.json
     /\ RequiredFieldsValid(call[t].response.body)
     /\ OmitsDescription(call[t].response.body)) =>
      /\ call[t].result.kind = "report"
      /\ call[t].result.report.conditions = "unknown"
      /\ call[t].result.report.location = call[t].response.body.name

\* C6 as stated: a call whose provider response lacks name, main.temp or
\* main.humidity, or has one of the wrong type, fails with a validation error.
C6_MissingRequiredIsValidationError ==
  \A t \in Tasks :
    (/\ call[t].pc = "returned"
     /\ call[t].response.net /\ call[t].response.json
     /\ ~RequiredFieldsValid(call[t].response.body)) =>
      call[t].result.kind = "ZodError"

\* C6 amended: a call whose provider response has a success status and lacks
\* name, main.temp or main.humidity, or has one of the wrong type, fails with
\* a validation error; on a non-success status it fails with the upstream
\* error instead; and a report is returned only for a success response with
\* all three fields present and well-typed, from which it takes them.
C6_NoPartialReport ==
  \A t \in Tasks :
    /\ call[t].pc # "returned" => call[t].result = NoResult
    /\ call[t].pc = "returned" =>
         /\ (/\ call[t].response.net /\ call[t].response.ok /\ call[t].response.json
             /\ ~RequiredFieldsValid(call[t].response.body)) =>
              /\ call[t].result.kind = "ZodError"
              /\ call[t].result.report = NoReport
         /\ (call[t].response.net /\ ~call[t].response.ok) =>
              /\ call[t].result.kind = "Error"
              /\ call[t].result.report = NoReport
         /\ call[t].result.kind = "report" =>
              /\ call[t].response.ok
              /\ RequiredFieldsValid(call[t].response.body)
              /\ call[t].result.report.location = call[t].response.body.name
              /\ call[t].result.report.temperature = call[t].response.body.temp
              /\ call[t].result.report.humidity =
                   ToString(call[t].response.body.humidity.n) \o "%"

\* C6 witness: a success response without a required field, failed with a
\* validation error
C6_Witness ==
  \E t \in Tasks :
    /\ call[t].pc = "returned"
    /\ call[t].response.ok
    /\ call[t].response.body.kind = "obj"
    /\ call[t].response.body.name.t = "absent"
    /\ call[t].result.kind = "ZodError"

\* C7: a request whose body has no location never has the orchestrator
\* invoked nor the provider fetched, and is answered with the validation error.
C7_NoLocationNoCalls ==
  \A r \in Requests :
    (req[r].pc # "idle" /\ req[r].body.syntax /\ req[r].body.location.t = "absent") =>
      /\ ~req[r].generated
      /\ req[r].fetches = 0
      /\ req[r].toolCalls = 0
      /\ call[r].pc = "idle"
      /\ req[r].pc = "done" =>
           /\ req[r].resp.kind = "ZodError"
           /\ req[r].resp.origin = "handler"
           /\ req[r].resp.status = 400
           /\ ~req[r].resp.success

\* C7 witness: the body {} answered with the validation error while the key is set
C7_Witness ==
  \E r \in Requests :
    /\ env = Str(Secret)
    /\ req[r].pc = "done"
    /\ req[r].body.kind = "obj"
    /\ req[r].body.location.t = "absent"
    /\ req[r].resp.kind = "ZodError"

\* C8: every call queries the provider in the unit system of its own
\* dependency bag, and every report carries that bag's temperatureUnit.
C8_UnitFollowsDependencies ==
  /\ \A t \in Tasks :
       /\ call[t].pc # "idle" =>
            UnitsMatch(call[t].deps.temperatureUnit, call[t].url[6])
       /\ call[t].result.kind = "report" =>
            call[t].result.report.unit = call[t].deps.temperatureUnit
  /\ \A o \in journal :
       o.result.kind = "report" => o.result.report.unit = o.deps.temperatureUnit

\* C8 witness: a report for a non-empty location under a celsius bag
C8_Witness ==
  \E t \in Tasks :
    /\ call[t].pc = "returned"
    /\ call[t].location # ""
    /\ call[t].deps.temperatureUnit = "celsius"
    /\ call[t].result.kind = "report"
    /\ call[t].result.report.temperature = Num(22)

\* C9: against the unchanged provider, any two finished calls given the same
\* location and the same dependency bag ended the same, whatever ran between
\* or beside them.
C9_SameInputsSameOutcome ==
  \A a \in Outcomes, b \in Outcomes :
    (a.location = b.location /\ a.deps = b.deps) => a.result = b.result

\* C9 witness: a call returns the report an earlier call with the same inputs
\* returned, while a call with another dependency bag is running
C9_Witness ==
  \E t \in Tasks, u \in Tasks, a \in journal :
    /\ call[t].pc = "returned"
    /\ call[t].result.kind = "report"
    /\ a.location = call[t].location
    /\ a.deps = call[t].deps
    /\ call[u].pc = "reading"
    /\ call[u].deps # call[t].deps

\* C10: a call whose provider response has a non-success status has failed
\* with "Error fetching weather: <statusText>", without reading the body and
\* without a report.
C10_UpstreamErrorBeforeBody ==
  \A t \in Tasks :
    (call[t].response.net /\ ~call[t].response.ok) =>
      /\ call[t].pc = "returned"
      /\ call[t].result.kind = "Error"
      /\ call[t].result.message =
           <<"Error fetching weather: ", call[t].response.statusText>>
      /\ ~call[t].bodyRead
      /\ call[t].result.report = NoReport

\* C10 witness: a 401 whose body would have passed validation, failed unread
C10_Witness ==
  \E t \in Tasks :
    /\ call[t].pc = "returned"
    /\ ~call[t].response.ok
    /\ call[t].response.statusText = "Unauthorized"
    /\ RequiredFieldsValid(call[t].response.body)
    /\ call[t].result.kind = "Error"

====
